---- MODULE Spec2Model ----
(***************************************************************************)
(* Model of src/finance.py: the income statement and cash-flow statement   *)
(* calculators, the DCF valuation calculate_dcf, and the Streamlit script  *)
(* that parses the forecast text, runs the "Calculate DCF" button and the  *)
(* sensitivity sweep.                                                      *)
(*                                                                         *)
(* Numbers.  A float is a pair <<n, d>>: the exact rational n/d in lowest  *)
(* terms with d > 0, or one of the IEEE specials with d = 0: <<1,0>> is    *)
(* inf, <<-1,0>> is -inf, <<0,0>> is nan.  Rounding of the arithmetic on   *)
(* finite values is not modelled (values are exact); division by zero,     *)
(* inf and nan follow Python's float and numpy's float64.  The one place   *)
(* where rounding decides what the script does, the length of np.arange,   *)
(* is computed in IEEE-754 binary64 (section "binary64").                  *)
(***************************************************************************)
EXTENDS Integers, Naturals, Sequences, FiniteSets, TLC

VARIABLES
    pc,                     \* position of the script / of the harness
    inputs,                 \* sidebar number inputs and tax slider (lines 53-61)
    financials,             \* line 64
    cash_flows,             \* line 65
    raw_text,               \* text_area content (line 77)
    discount_rate,          \* line 78
    terminal_growth_rate,   \* line 79
    button,                 \* st.sidebar.button("Calculate DCF") (line 91)
    sensitivity_metric,     \* line 101
    cash_flow_forecast,     \* lines 83/88: parsed list or None
    sidebar_error,          \* st.sidebar.error was shown (lines 87, 129)
    dcf_value,              \* outcome of the button's calculate_dcf (lines 93-97)
    swept,                  \* number of swept values the comprehension has consumed
    dcf_values,             \* list being built by the comprehension (108 / 120)
    plotted,                \* the series handed to plt.plot / st.pyplot
    st_error,               \* st.error of the sensitivity block (115 / 127)
    calls,                  \* cash_flows argument of every calculate_dcf invocation
    args,                   \* arguments of a direct call of calculate_dcf
    returned                \* what the direct calls returned or raised

vars == <<pc, inputs, financials, cash_flows, raw_text, discount_rate,
          terminal_growth_rate, button, sensitivity_metric, cash_flow_forecast,
          sidebar_error, dcf_value, swept, dcf_values, plotted, st_error, calls,
          args, returned>>

----------------------------------------------------------------------------
(* Exact rationals                                                         *)

Abs(x) == IF x < 0 THEN -x ELSE x

RECURSIVE GCD(_, _)
GCD(a, b) == IF b = 0 THEN a ELSE GCD(b, a % b)

Norm(n, d) ==
    LET g == GCD(Abs(n), Abs(d))
        s == IF d < 0 THEN -1 ELSE 1
    IN  <<s * (n \div g), s * (d \div g)>>

Frac(n, d) == Norm(n, d)
Whole(n) == <<n, 1>>

inf == <<1, 0>>
neg_inf == <<-1, 0>>
nan == <<0, 0>>
NonNumeric == <<0, -1>>          \* an object float() rejects, e.g. "abc"

IsFinite(x) == x[2] > 0
IsNaN(x) == x = nan
IsInf(x) == x[2] = 0 /\ x[1] # 0
IsZero(x) == x[2] > 0 /\ x[1] = 0
Sign(x) == IF x[1] > 0 THEN 1 ELSE IF x[1] < 0 THEN -1 ELSE 0

\* finite * finite, cancelling crosswise before multiplying
RMul(x, y) ==
    LET g1 == GCD(Abs(x[1]), y[2])
        g2 == GCD(Abs(y[1]), x[2])
    IN  Norm((x[1] \div g1) * (y[1] \div g2), (x[2] \div g2) * (y[2] \div g1))

RAdd(x, y) ==
    LET g == GCD(x[2], y[2])
    IN  Norm(x[1] * (y[2] \div g) + y[1] * (x[2] \div g), (x[2] \div g) * y[2])

RNeg(x) == <<-x[1], x[2]>>
RInv(x) == Norm(x[2], x[1])                        \* x finite, non-zero

\* a/b < c/d for b, d > 0, by comparing the continued-fraction expansions
RECURSIVE FracLess(_, _, _, _)
FracLess(a, b, c, d) ==
    IF a \div b # c \div d THEN a \div b < c \div d
    ELSE IF c % d = 0 THEN FALSE
    ELSE IF a % b = 0 THEN TRUE
    ELSE FracLess(d, c % d, b, a % b)

RLess(x, y) == FracLess(x[1], x[2], y[1], y[2])    \* x, y finite

----------------------------------------------------------------------------
(* IEEE arithmetic on floats: finite values exact, specials as in IEEE 754  *)

FNeg(x) == <<-x[1], x[2]>>

FAdd(x, y) ==
    IF IsNaN(x) \/ IsNaN(y) THEN nan
    ELSE IF IsInf(x) /\ IsInf(y) THEN (IF x = y THEN x ELSE nan)
    ELSE IF IsInf(x) THEN x
    ELSE IF IsInf(y) THEN y
    ELSE RAdd(x, y)

FSub(x, y) == FAdd(x, FNeg(y))

FMul(x, y) ==
    IF IsNaN(x) \/ IsNaN(y) THEN nan
    ELSE IF IsInf(x) \/ IsInf(y)
         THEN (IF Sign(x) * Sign(y) = 0 THEN nan ELSE <<Sign(x) * Sign(y), 0>>)
    ELSE RMul(x, y)

\* IEEE division without trapping: what numpy.float64 does (a RuntimeWarning only)
FDiv(x, y) ==
    IF IsNaN(x) \/ IsNaN(y) THEN nan
    ELSE IF IsInf(y) THEN (IF IsInf(x) THEN nan ELSE Whole(0))
    ELSE IF IsZero(y) THEN (IF Sign(x) = 0 THEN nan ELSE <<Sign(x), 0>>)
    ELSE IF IsInf(x) THEN <<Sign(x) * Sign(y), 0>>
    ELSE RMul(x, RInv(y))

RECURSIVE FPow(_, _)
FPow(x, k) == IF k = 0 THEN Whole(1) ELSE FMul(x, FPow(x, k - 1))

----------------------------------------------------------------------------
(* Python objects and exceptions                                           *)

None == [isNone |-> TRUE, list |-> <<>>]
List(l) == [isNone |-> FALSE, list |-> l]

\* the outcome of evaluating an expression: a value, or a pending exception
Value(v) == [exc |-> "none", val |-> v]
Except(e) == [exc |-> e, val |-> nan]

\* a rate is a Python float (sliders) or a numpy.float64 (an element of np.arange)
PyFloat(x) == [v |-> x, np |-> FALSE]
Float64(x) == [v |-> x, np |-> TRUE]

\* x / y.  Python's float raises ZeroDivisionError when y == 0.0, whatever x is;
\* when either operand is a numpy.float64 the division is numpy's, which only
\* warns and yields inf, -inf or nan.
TrueDiv(x, y, numpy) ==
    IF ~numpy /\ IsZero(y) THEN Except("ZeroDivisionError") ELSE Value(FDiv(x, y))

RECURSIVE sum(_)
sum(l) == IF l = <<>> THEN Whole(0) ELSE FAdd(sum(SubSeq(l, 1, Len(l) - 1)), l[Len(l)])

----------------------------------------------------------------------------
(* calculate_dcf (lines 32-46)                                             *)

ZeroDivisionMessage ==
    "Discount rate and terminal growth rate must not result in division by zero."
ConversionMessage == "Error in DCF calculation: could not convert string to float"
IndexMessage == "Error in DCF calculation: list index out of range"
NotIterableMessage == "Error in DCF calculation: 'NoneType' object is not iterable"

Returns(v) == [kind |-> "return", value |-> v, msg |-> ""]
Raises(m) == [kind |-> "ValueError", value |-> nan, msg |-> m]

\* line 35: [float(cf) for cf in cash_flows]
ToFloats(cash_flows_arg) ==
    IF cash_flows_arg.isNone THEN Except("TypeError")
    ELSE IF \E k \in 1..Len(cash_flows_arg.list) : cash_flows_arg.list[k] = NonNumeric
         THEN Except("ValueError")
    ELSE Value(cash_flows_arg.list)

\* mutant of DiscountedCashFlow: the cash flow is compounded, not discounted
CompoundedCashFlow(cf, year, rate) ==
    Value(FMul(cf, FPow(FAdd(Whole(1), rate.v), year)))

\* line 38: cf / ((1 + discount_rate) ** year)
DiscountedCashFlow(cf, year, rate) ==
    TrueDiv(cf, FPow(FAdd(Whole(1), rate.v), year), rate.np)

\* lines 37-39: the comprehension stops at the first element that raises
DiscountedCashFlows(floats, rate) ==
    LET each == [year \in 1..Len(floats) |-> DiscountedCashFlow(floats[year], year, rate)]
        bad == {year \in 1..Len(floats) : each[year].exc # "none"}
    IN  IF bad # {} THEN Except(each[CHOOSE y \in bad : \A z \in bad : y <= z].exc)
        ELSE Value([year \in 1..Len(floats) |-> each[year].val])

\* mutant of TerminalValueOfLastPeriod: the last cash flow is grown at the discount rate
TerminalValueGrownAtDiscountRate(floats, rate, growth) ==
    IF floats = <<>> THEN Except("IndexError")
    ELSE TrueDiv(FMul(floats[Len(floats)], FAdd(Whole(1), rate.v)),
                 FSub(rate.v, growth.v), rate.np \/ growth.np)

\* mutant of TerminalValueOfLastPeriod: the quotient (1 + g) / (r - g) is computed
\* before the list is indexed
TerminalValueDividesFirst(floats, rate, growth) ==
    LET multiple == TrueDiv(FAdd(Whole(1), growth.v), FSub(rate.v, growth.v),
                            rate.np \/ growth.np)
    IN  IF multiple.exc # "none" THEN multiple
        ELSE IF floats = <<>> THEN Except("IndexError")
        ELSE Value(FMul(floats[Len(floats)], multiple.val))

\* mutant of TerminalValueOfLastPeriod: a discount rate below the growth rate is rejected
TerminalValueGuardsLowRate(floats, rate, growth) ==
    IF floats = <<>> THEN Except("IndexError")
    ELSE IF RLess(rate.v, growth.v) THEN Except("ValueError")
    ELSE TrueDiv(FMul(floats[Len(floats)], FAdd(Whole(1), growth.v)),
                 FSub(rate.v, growth.v), rate.np \/ growth.np)

\* line 40: cash_flows[-1] * (1 + terminal_growth_rate) / (discount_rate - terminal_growth_rate)
TerminalValueOfLastPeriod(floats, rate, growth) ==
    IF floats = <<>> THEN Except("IndexError")
    ELSE TrueDiv(FMul(floats[Len(floats)], FAdd(Whole(1), growth.v)),
                 FSub(rate.v, growth.v), rate.np \/ growth.np)

\* line 41: terminal_value / ((1 + discount_rate) ** years)
DiscountedTerminalValue(terminal_value, years, rate, growth) ==
    TrueDiv(terminal_value, FPow(FAdd(Whole(1), rate.v), years), rate.np \/ growth.np)

\* lines 43-46: the two except clauses
ExceptClauses(exc) ==
    IF exc = "ZeroDivisionError" THEN Raises(ZeroDivisionMessage)
    ELSE IF exc = "ValueError" THEN Raises(ConversionMessage)
    ELSE IF exc = "IndexError" THEN Raises(IndexMessage)
    ELSE Raises(NotIterableMessage)

calculate_dcf(cash_flows_arg, rate, growth) ==
    LET floats == ToFloats(cash_flows_arg)
        years == Len(floats.val)
        discounted_cash_flows == DiscountedCashFlows(floats.val, rate)
        terminal_value == TerminalValueOfLastPeriod(floats.val, rate, growth)
        discounted_terminal_value ==
            DiscountedTerminalValue(terminal_value.val, years, rate, growth)
    IN  IF floats.exc # "none" THEN ExceptClauses(floats.exc)
        ELSE IF discounted_cash_flows.exc # "none"
             THEN ExceptClauses(discounted_cash_flows.exc)
        ELSE IF terminal_value.exc # "none" THEN ExceptClauses(terminal_value.exc)
        ELSE IF discounted_terminal_value.exc # "none"
             THEN ExceptClauses(discounted_terminal_value.exc)
        ELSE Returns(FAdd(sum(discounted_cash_flows.val), discounted_terminal_value.val))

----------------------------------------------------------------------------
(* binary64: IEEE-754 double precision, round to nearest, ties to even.    *)
(* np.arange(start, stop, step) has ceil((stop - start) / step) elements,  *)
(* the subtraction and the division being float64 operations, so the       *)
(* length is decided by their rounding.  A 53-bit significand is a pair    *)
(* <<hi, lo>> = hi * 2^26 + lo; a double is [m, e], the value m * 2^(-e)   *)
(* with 2^52 <= m < 2^53.                                                  *)

Limb == 2 ^ 26

BigTwice(b) == <<2 * b[1] + (2 * b[2]) \div Limb, (2 * b[2]) % Limb>>
BigHalf(b) == <<b[1] \div 2, (b[1] % 2) * (Limb \div 2) + b[2] \div 2>>
BigPlusOne(b) == IF b[2] + 1 = Limb THEN <<b[1] + 1, 0>> ELSE <<b[1], b[2] + 1>>
BigOdd(b) == b[2] % 2 = 1
BigGeq(a, b) == a[1] > b[1] \/ (a[1] = b[1] /\ a[2] >= b[2])
BigMinus(a, b) ==
    IF a[2] >= b[2] THEN <<a[1] - b[1], a[2] - b[2]>>
    ELSE <<a[1] - b[1] - 1, a[2] + Limb - b[2]>>

RECURSIVE BigShiftLeft(_, _)
BigShiftLeft(b, k) == IF k = 0 THEN b ELSE BigShiftLeft(BigTwice(b), k - 1)

\* m * 2^(-e), plus a guard bit and a sticky flag below it, rounded to 53 bits
RECURSIVE Round53(_, _, _, _)
Round53(m, e, guard, sticky) ==
    IF m[1] >= 2 * Limb
    THEN Round53(BigHalf(m), e - 1, IF BigOdd(m) THEN 1 ELSE 0, sticky \/ guard = 1)
    ELSE IF m[1] < Limb /\ m # <<0, 0>> /\ guard = 0 /\ ~sticky
    THEN Round53(BigTwice(m), e + 1, 0, FALSE)
    ELSE LET up == guard = 1 /\ (sticky \/ BigOdd(m))
             r == IF up THEN BigPlusOne(m) ELSE m
         IN  IF r[1] >= 2 * Limb THEN [m |-> BigHalf(r), e |-> e - 1]
             ELSE [m |-> r, e |-> e]

\* the binary expansion of (m + rem/d) * 2^(-e), rem < d, carried on until m has
\* 53 bits and then rounded on the next bit and the rest of the remainder
RECURSIVE Quotient(_, _, _, _)
Quotient(m, rem, e, d) ==
    LET r2 == BigTwice(rem)
        bit == IF BigGeq(r2, d) THEN 1 ELSE 0
        rest == IF bit = 1 THEN BigMinus(r2, d) ELSE r2
        twice == BigTwice(m)
    IN  IF m[1] >= Limb THEN Round53(m, e, bit, rest # <<0, 0>>)
        ELSE Quotient(<<twice[1], twice[2] + bit>>, rest, e + 1, d)

\* the double nearest to the decimal literal a/b (a, b small positive integers)
Binary64(lit) ==
    Quotient(<<0, lit[1] \div lit[2]>>, <<0, lit[1] % lit[2]>>, 0, <<0, lit[2]>>)

\* x - y for x > y > 0 whose exponents differ by at most 4
Binary64Minus(x, y) ==
    Round53(BigMinus(BigShiftLeft(x.m, y.e - x.e), y.m), y.e, 0, FALSE)

\* x / y for x, y > 0
Binary64Over(x, y) ==
    IF BigGeq(x.m, y.m) THEN Quotient(<<0, 1>>, BigMinus(x.m, y.m), x.e - y.e, y.m)
    ELSE Quotient(<<0, 0>>, x.m, x.e - y.e, y.m)

\* ceil(x) for 1 <= x < 2^26
Binary64Ceil(x) ==
    LET unit == 2 ^ (x.e - 26)
    IN  x.m[1] \div unit + (IF x.m[1] % unit # 0 \/ x.m[2] # 0 THEN 1 ELSE 0)

\* len(np.arange(start, stop, step)) for decimal literals start < stop, step > 0
arange_len(start, stop, step) ==
    Binary64Ceil(Binary64Over(Binary64Minus(Binary64(stop), Binary64(start)),
                              Binary64(step)))

----------------------------------------------------------------------------
(* Financial statements (lines 8-30)                                       *)

\* mutant of calculate_financials: the tax is taken on the gross profit
calculate_financials_taxing_gross_profit(revenue, cogs, operating_expenses, tax_rate) ==
    LET gross_profit == FSub(revenue, cogs)
        operating_income == FSub(gross_profit, operating_expenses)
        net_income == FMul(gross_profit, FSub(Whole(1), tax_rate))
    IN  [Revenue |-> revenue,
         COGS |-> cogs,
         GrossProfit |-> gross_profit,
         OperatingExpenses |-> operating_expenses,
         OperatingIncome |-> operating_income,
         NetIncome |-> net_income,
         TaxRatePct |-> FMul(tax_rate, Whole(100))]

calculate_financials(revenue, cogs, operating_expenses, tax_rate) ==
    LET gross_profit == FSub(revenue, cogs)
        operating_income == FSub(gross_profit, operating_expenses)
        net_income == FMul(operating_income, FSub(Whole(1), tax_rate))
    IN  [Revenue |-> revenue,
         COGS |-> cogs,
         GrossProfit |-> gross_profit,
         OperatingExpenses |-> operating_expenses,
         OperatingIncome |-> operating_income,
         NetIncome |-> net_income,
         TaxRatePct |-> FMul(tax_rate, Whole(100))]

generate_cash_flow_statement(fin, depreciation, capex, working_capital_change) ==
    LET operating_cash_flow == FSub(FAdd(fin.NetIncome, depreciation), working_capital_change)
        investing_cash_flow == FNeg(capex)
        total_cash_flow == FAdd(operating_cash_flow, investing_cash_flow)
    IN  [OperatingCashFlow |-> operating_cash_flow,
         InvestingCashFlow |-> investing_cash_flow,
         TotalCashFlow |-> total_cash_flow]

----------------------------------------------------------------------------
(* Forecast parsing (lines 81-88).  The text is a sequence of characters.  *)

\* str.split(','): the pieces between the commas, empty pieces included
RECURSIVE split(_)
split(text) ==
    IF \A k \in 1..Len(text) : text[k] # "," THEN <<text>>
    ELSE LET c == CHOOSE k \in 1..Len(text) :
                      text[k] = "," /\ \A j \in 1..(k - 1) : text[j] # ","
         IN  <<SubSeq(text, 1, c - 1)>> \o split(SubSeq(text, c + 1, Len(text)))

\* str.strip(): leading and trailing whitespace removed
RECURSIVE strip(_)
strip(token) ==
    IF token = <<>> THEN token
    ELSE IF token[1] = " " THEN strip(Tail(token))
    ELSE IF token[Len(token)] = " " THEN strip(SubSeq(token, 1, Len(token) - 1))
    ELSE token

\* float(token) succeeds on a stripped token of decimal digits (of the literals
\* float() accepts, the texts of the model can spell only these)
Digits == {"1"}
IsFloatLiteral(token) == token # <<>> /\ \A k \in 1..Len(token) : token[k] \in Digits

RECURSIVE DigitsValue(_)
DigitsValue(token) ==
    IF token = <<>> THEN 0
    ELSE 10 * DigitsValue(SubSeq(token, 1, Len(token) - 1))
         + (IF token[Len(token)] = "1" THEN 1 ELSE 0)

float(token) == Whole(DigitsValue(token))

\* line 83: the tokens that survive "if x.strip()"
RECURSIVE NonEmptyStripped(_)
NonEmptyStripped(tokens) ==
    IF tokens = <<>> THEN <<>>
    ELSE (IF strip(tokens[1]) # <<>> THEN <<strip(tokens[1])>> ELSE <<>>)
         \o NonEmptyStripped(Tail(tokens))

\* lines 82-88: the parsed list, or None when float() or line 85 raised ValueError
ParseForecast(text) ==
    LET tokens == NonEmptyStripped(split(text))
    IN  IF \E k \in 1..Len(tokens) : ~IsFloatLiteral(tokens[k]) THEN None
        ELSE IF tokens = <<>> THEN None
        ELSE List([k \in 1..Len(tokens) |-> float(tokens[k])])

\* truth value of cash_flow_forecast in "if cash_flow_forecast" (lines 91, 104)
Truthy(forecast) == ~forecast.isNone /\ forecast.list # <<>>

\* mutant of ButtonGuard: the button alone decides
ButtonGuardIgnoresForecast(pressed, forecast) == pressed

\* line 91: st.sidebar.button("Calculate DCF") and cash_flow_forecast
ButtonGuard(pressed, forecast) == pressed /\ Truthy(forecast)

\* line 104: if cash_flow_forecast
SensitivityGuard(forecast) == Truthy(forecast)

----------------------------------------------------------------------------
(* Sensitivity sweeps (lines 104-127)                                      *)

\* np.arange(0.05, 0.20, 0.01): element i is start + i * step, a numpy.float64.
\* The number of elements is the float64 computation; an element's value is kept
\* exact (5%, 6%, ...): element 0 is exactly start, which is all that decides
\* whether a swept value equals a slider value.
rates ==
    [k \in 1..arange_len(<<5, 100>>, <<20, 100>>, <<1, 100>>) |-> Float64(Frac(5 + (k - 1), 100))]

\* np.arange(0.01, 0.05, 0.005)
growth_rates ==
    [k \in 1..arange_len(<<1, 100>>, <<5, 100>>, <<5, 1000>>) |-> Float64(Frac(10 + 5 * (k - 1), 1000))]

SweptValues(metric) == IF metric = "Discount Rate" THEN rates ELSE growth_rates

\* lines 108 / 120: the call made for one swept value
SweepCall(metric, forecast, value, rate, growth) ==
    IF metric = "Discount Rate" THEN <<forecast, value, PyFloat(growth)>>
    ELSE <<forecast, PyFloat(rate), value>>

----------------------------------------------------------------------------
(* Bounds and input sets                                                   *)

MaxText == 3        \* longest forecast text
MaxLen == 2         \* longest forecast of a direct call

Alphabet == {"1", ",", " ", "x"}
Texts == UNION {[1..n -> Alphabet] : n \in 0..MaxText}

\* positions of "Discount Rate (%)" (0..20) and "Terminal Growth Rate (%)" (0..5)
DiscountSlider == {Whole(0), Frac(1, 100), Frac(1, 10), Frac(1, 5)}
GrowthSlider == {Whole(0), Frac(1, 50), Frac(1, 20)}
Metrics == {"Discount Rate", "Growth Rate"}

\* arguments of direct calls
Entries == {Whole(-1), Whole(0), Whole(2), nan, inf, NonNumeric}
Forecasts == UNION {[1..n -> Entries] : n \in 0..MaxLen}
RateValues == {Whole(-1), Whole(0), Frac(1, 20), Frac(1, 10)}
GrowthValues == {Whole(0), Frac(1, 50), Frac(1, 20)}
Typings == {<<FALSE, FALSE>>, <<TRUE, FALSE>>, <<FALSE, TRUE>>}   \* <<rate is float64, growth is float64>>

KnownForecast == <<Whole(100000), Whole(110000), Whole(121000), Whole(133100)>>

Typed(x, np) == IF np THEN Float64(x) ELSE PyFloat(x)

Amounts == {Whole(0), Frac(1, 4), Whole(300000), Whole(500000)}
TaxRates == {Whole(0), Frac(1, 5), Frac(1, 2), Whole(1)}
OtherAmounts == {Whole(-5000), Whole(0), Whole(20000)}

Unset == [kind |-> "unset", value |-> nan, msg |-> ""]
NoStatement == [unset |-> TRUE]
NoInputs == [unset |-> TRUE]
NoArgs == [unset |-> TRUE]

----------------------------------------------------------------------------
(* Spec: one run of the script from the DCF inputs on (lines 75-129)       *)

ScriptIdle ==
    /\ raw_text = <<>> /\ discount_rate = Whole(0) /\ terminal_growth_rate = Whole(0)
    /\ button = FALSE /\ sensitivity_metric = "Discount Rate"
    /\ cash_flow_forecast = None /\ sidebar_error = FALSE /\ dcf_value = Unset
    /\ swept = 0 /\ dcf_values = <<>> /\ plotted = <<>> /\ st_error = ""
    /\ calls = <<>>

StatementsIdle == inputs = NoInputs /\ financials = NoStatement /\ cash_flows = NoStatement

DirectIdle == args = NoArgs /\ returned = <<>>

Init ==
    /\ pc = "parse"
    /\ raw_text \in Texts
    /\ discount_rate \in DiscountSlider
    /\ terminal_growth_rate \in GrowthSlider
    /\ button \in BOOLEAN
    /\ sensitivity_metric \in Metrics
    /\ cash_flow_forecast = None
    /\ sidebar_error = FALSE
    /\ dcf_value = Unset
    /\ swept = 0 /\ dcf_values = <<>> /\ plotted = <<>> /\ st_error = ""
    /\ calls = <<>>
    /\ StatementsIdle /\ DirectIdle

\* lines 82-88
Parse ==
    /\ pc = "parse"
    /\ cash_flow_forecast' = ParseForecast(raw_text)
    /\ sidebar_error' = ParseForecast(raw_text).isNone
    /\ pc' = "button"
    /\ UNCHANGED <<inputs, financials, cash_flows, raw_text, discount_rate,
                   terminal_growth_rate, button, sensitivity_metric, dcf_value, swept,
                   dcf_values, plotted, st_error, calls, args, returned>>

\* lines 91-97
CalculateDCFButton ==
    /\ pc = "button"
    /\ IF ButtonGuard(button, cash_flow_forecast)
       THEN /\ dcf_value' = calculate_dcf(cash_flow_forecast, PyFloat(discount_rate),
                                          PyFloat(terminal_growth_rate))
            /\ calls' = Append(calls, <<cash_flow_forecast, PyFloat(discount_rate),
                                        PyFloat(terminal_growth_rate)>>)
       ELSE UNCHANGED <<dcf_value, calls>>
    /\ pc' = "sensitivity"
    /\ UNCHANGED <<inputs, financials, cash_flows, raw_text, discount_rate,
                   terminal_growth_rate, button, sensitivity_metric, cash_flow_forecast,
                   sidebar_error, swept, dcf_values, plotted, st_error, args, returned>>

\* lines 104-106 / 117-118, and the else branch of lines 128-129
SensitivityAnalysis ==
    /\ pc = "sensitivity"
    /\ IF SensitivityGuard(cash_flow_forecast)
       THEN pc' = "sweep" /\ UNCHANGED sidebar_error
       ELSE pc' = "done" /\ sidebar_error' = TRUE
    /\ UNCHANGED <<inputs, financials, cash_flows, raw_text, discount_rate,
                   terminal_growth_rate, button, sensitivity_metric, cash_flow_forecast,
                   dcf_value, swept, dcf_values, plotted, st_error, calls, args, returned>>

\* lines 108 / 120: one element of the comprehension; a ValueError leaves it
\* for the except clause of lines 114-115 / 126-127
SweepStep ==
    /\ pc = "sweep"
    /\ swept < Len(SweptValues(sensitivity_metric))
    /\ LET call == SweepCall(sensitivity_metric, cash_flow_forecast,
                             SweptValues(sensitivity_metric)[swept + 1],
                             discount_rate, terminal_growth_rate)
           result == calculate_dcf(call[1], call[2], call[3])
       IN  /\ calls' = Append(calls, call)
           /\ swept' = swept + 1
           /\ IF result.kind = "return"
              THEN /\ dcf_values' = Append(dcf_values, result.value)
                   /\ UNCHANGED <<pc, st_error>>
              ELSE /\ st_error' = result.msg
                   /\ pc' = "done"
                   /\ UNCHANGED dcf_values
    /\ UNCHANGED <<inputs, financials, cash_flows, raw_text, discount_rate,
                   terminal_growth_rate, button, sensitivity_metric, cash_flow_forecast,
                   sidebar_error, dcf_value, plotted, args, returned>>

\* lines 109-113 / 121-125: plt.plot(rates * 100, dcf_values); st.pyplot(plt)
Plot ==
    /\ pc = "sweep"
    /\ swept = Len(SweptValues(sensitivity_metric))
    /\ plotted' = [k \in 1..Len(dcf_values) |->
                      <<FMul(SweptValues(sensitivity_metric)[k].v, Whole(100)), dcf_values[k]>>]
    /\ pc' = "done"
    /\ UNCHANGED <<inputs, financials, cash_flows, raw_text, discount_rate,
                   terminal_growth_rate, button, sensitivity_metric, cash_flow_forecast,
                   sidebar_error, dcf_value, swept, dcf_values, st_error, calls, args,
                   returned>>

Next == Parse \/ CalculateDCFButton \/ SensitivityAnalysis \/ SweepStep \/ Plot

Spec == Init /\ [][Next]_vars

----------------------------------------------------------------------------
(* SpecStatements: the statements part of the script (lines 53-65)         *)

InitStatements ==
    /\ pc = "financials"
    /\ inputs \in [revenue : Amounts, cogs : Amounts, operating_expenses : Amounts,
                   tax_rate : TaxRates, depreciation : OtherAmounts,
                   capex : OtherAmounts, working_capital_change : OtherAmounts]
    /\ financials = NoStatement /\ cash_flows = NoStatement
    /\ ScriptIdle /\ DirectIdle

\* line 64
GenerateFinancials ==
    /\ pc = "financials"
    /\ financials' = calculate_financials(inputs.revenue, inputs.cogs,
                                          inputs.operating_expenses, inputs.tax_rate)
    /\ pc' = "cash_flows"
    /\ UNCHANGED <<inputs, cash_flows, raw_text, discount_rate, terminal_growth_rate,
                   button, sensitivity_metric, cash_flow_forecast, sidebar_error,
                   dcf_value, swept, dcf_values, plotted, st_error, calls, args, returned>>

\* line 65
GenerateCashFlowStatement ==
    /\ pc = "cash_flows"
    /\ cash_flows' = generate_cash_flow_statement(financials, inputs.depreciation,
                                                  inputs.capex, inputs.working_capital_change)
    /\ pc' = "shown"
    /\ UNCHANGED <<inputs, financials, raw_text, discount_rate, terminal_growth_rate,
                   button, sensitivity_metric, cash_flow_forecast, sidebar_error,
                   dcf_value, swept, dcf_values, plotted, st_error, calls, args, returned>>

NextStatements == GenerateFinancials \/ GenerateCashFlowStatement

SpecStatements == InitStatements /\ [][NextStatements]_vars

----------------------------------------------------------------------------
(* SpecDCF: calculate_dcf invoked directly, twice on the same forecast and *)
(* growth rate, at a first and at a second discount rate                   *)

InitDCF ==
    /\ pc = "call"
    /\ \/ \E f \in Forecasts, r \in RateValues, r2 \in RateValues, g \in GrowthValues,
             t \in Typings :
              args = [cash_flows_arg |-> List(f), rate |-> Typed(r, t[1]),
                      rate2 |-> Typed(r2, t[1]), growth |-> Typed(g, t[2])]
       \/ \E t \in Typings :
              args = [cash_flows_arg |-> List(KnownForecast),
                      rate |-> Typed(Frac(1, 10), t[1]), rate2 |-> Typed(Frac(1, 5), t[1]),
                      growth |-> Typed(Frac(1, 50), t[2])]
    /\ returned = <<>>
    /\ ScriptIdle /\ StatementsIdle

CallFirst ==
    /\ pc = "call"
    /\ returned' = <<calculate_dcf(args.cash_flows_arg, args.rate, args.growth)>>
    /\ pc' = "call2"
    /\ UNCHANGED <<inputs, financials, cash_flows, raw_text, discount_rate,
                   terminal_growth_rate, button, sensitivity_metric, cash_flow_forecast,
                   sidebar_error, dcf_value, swept, dcf_values, plotted, st_error, calls,
                   args>>

CallSecond ==
    /\ pc = "call2"
    /\ returned' = Append(returned, calculate_dcf(args.cash_flows_arg, args.rate2, args.growth))
    /\ pc' = "returned"
    /\ UNCHANGED <<inputs, financials, cash_flows, raw_text, discount_rate,
                   terminal_growth_rate, button, sensitivity_metric, cash_flow_forecast,
                   sidebar_error, dcf_value, swept, dcf_values, plotted, st_error, calls,
                   args>>

NextDCF == CallFirst \/ CallSecond

SpecDCF == InitDCF /\ [][NextDCF]_vars

----------------------------------------------------------------------------
(* Properties                                                              *)

Numeric(f) == \A k \in 1..Len(f) : f[k] # NonNumeric
AllFinite(f) == \A k \in 1..Len(f) : IsFinite(f[k])
ValidationMessages == {ConversionMessage, IndexMessage, NotIterableMessage}

\* the valuation formula, evaluated from the last period backwards:
\* V[n] = cf[n] + cf[n](1+g)/(r-g), V[k] = cf[k] + V[k+1]/(1+r), value = V[1]/(1+r)
RECURSIVE Backwards(_, _, _)
Backwards(f, k, r) ==
    IF k = Len(f) THEN f[k]
    ELSE RAdd(f[k], RMul(Backwards(f, k + 1, r), RInv(RAdd(Whole(1), r))))

FormulaValue(f, r, g) ==
    LET n == Len(f)
        tv == RMul(RMul(f[n], RAdd(Whole(1), g)), RInv(RAdd(r, RNeg(g))))
        withTV == [f EXCEPT ![n] = RAdd(f[n], tv)]
    IN  RMul(Backwards(withTV, 1, r), RInv(RAdd(Whole(1), r)))

Within(x, target, tolerance) ==
    /\ IsFinite(x)
    /\ ~RLess(x, RAdd(target, RNeg(tolerance)))
    /\ ~RLess(RAdd(target, tolerance), x)

\* C1 (as stated): with discountRate == terminalGrowthRate and a non-empty forecast
\* of numeric entries, calculate_dcf never returns a valuation; it raises the
\* error that names the discount rate and the terminal growth rate.
C1_EqualRatesRaiseDivisionError ==
    (pc # "call" /\ args.cash_flows_arg.list # <<>> /\ Numeric(args.cash_flows_arg.list)
        /\ args.rate.v = args.growth.v)
    => (returned[1].kind = "ValueError" /\ returned[1].msg = ZeroDivisionMessage)

\* C2 (as stated): the known scenario is valued within 0.01 of 1,515,763.
C2_KnownValueAsStated ==
    (pc # "call" /\ args.cash_flows_arg.list = KnownForecast
        /\ args.rate.v = Frac(1, 10) /\ args.growth.v = Frac(1, 50))
    => (returned[1].kind = "return"
        /\ Within(returned[1].value, Whole(1515763), Frac(1, 100)))

\* C2 (amended): forecast [100000, 110000, 121000, 133100] at discountRate 0.10 and
\* terminalGrowthRate 0.02 is valued within 0.01 of 1,522,727.27, the sum of the four
\* discounted cash flows plus the discounted terminal value of the last period.
C2_KnownValue ==
    (pc # "call" /\ args.cash_flows_arg.list = KnownForecast
        /\ args.rate.v = Frac(1, 10) /\ args.growth.v = Frac(1, 50))
    => (returned[1].kind = "return"
        /\ Within(returned[1].value, Frac(152272727, 100), Frac(1, 100))
        /\ returned[1].value = FormulaValue(KnownForecast, Frac(1, 10), Frac(1, 50)))

C2_Witness ==
    /\ pc = "returned" /\ args.cash_flows_arg.list = KnownForecast
    /\ args.rate = PyFloat(Frac(1, 10)) /\ args.growth = PyFloat(Frac(1, 50))
    /\ returned[1].kind = "return" /\ returned[1].value = Frac(16750000, 11)

\* C3 (as stated): a swept value that equals the fixed partner rate fails the whole
\* sweep: no valuation is computed for a later swept value, nothing is plotted and
\* an error is reported.
C3_CollisionAbortsSweep ==
    \A k \in 1..Len(calls) :
        ((calls[k][2].np \/ calls[k][3].np) /\ calls[k][2].v = calls[k][3].v)
        => (Len(calls) = k /\ pc = "done" /\ st_error # "" /\ plotted = <<>>)

\* C4 (as stated): the discount-rate sweep at terminalGrowthRate 0.02 yields exactly
\* 15 points, for 5%, 6%, ..., 19% in this order, each the valuation of a direct call.
C4_FifteenPoints ==
    (pc = "done" /\ sensitivity_metric = "Discount Rate" /\ Truthy(cash_flow_forecast)
        /\ terminal_growth_rate = Frac(1, 50))
    => /\ Len(plotted) = 15
       /\ \A k \in 1..Len(plotted) :
              /\ plotted[k][1] = Whole(4 + k)
              /\ plotted[k][2] = calculate_dcf(cash_flow_forecast, PyFloat(Frac(4 + k, 100)),
                                               PyFloat(Frac(1, 50))).value

\* C5: calculate_dcf with an empty forecast never returns a valuation, whatever
\* the rates (equal rates included): it raises the "Error in DCF calculation" error,
\* not the division-by-zero one.
C5_EmptyForecastRaisesValidation ==
    (pc # "call" /\ args.cash_flows_arg.list = <<>>)
    => (returned[1].kind = "ValueError" /\ returned[1].msg \in ValidationMessages)

C5_Witness ==
    /\ pc = "returned" /\ args.cash_flows_arg.list = <<>>
    /\ args.rate = args.growth
    /\ returned[1].msg = IndexMessage

\* C6 (as stated): a forecast with an entry that is not a finite number (a
\* non-numeric token, nan, inf) makes calculate_dcf raise; it never returns a
\* value, so never inf or nan.
C6_NonFiniteEntryRaises ==
    (pc # "call" /\ ~AllFinite(args.cash_flows_arg.list))
    => returned[1].kind = "ValueError"

\* C7 (as stated): for a non-empty numeric forecast and g < r1 < r2 the valuation at
\* r1 is strictly greater than the valuation at r2.
C7_StrictlyDecreasing ==
    (pc = "returned" /\ args.cash_flows_arg.list # <<>>
        /\ AllFinite(args.cash_flows_arg.list)
        /\ RLess(args.growth.v, args.rate.v) /\ RLess(args.rate.v, args.rate2.v))
    => (returned[1].kind = "return" /\ returned[2].kind = "return"
        /\ RLess(returned[2].value, returned[1].value))

NonNegativeSomePositive(f) ==
    /\ f # <<>>
    /\ \A k \in 1..Len(f) : IsFinite(f[k]) /\ f[k][1] >= 0
    /\ \E k \in 1..Len(f) : f[k][1] > 0

\* C7 (amended): for a forecast whose entries are all >= 0 with at least one > 0,
\* a terminalGrowthRate >= 0 and g < r1 < r2, the valuation at r1 is strictly
\* greater than the valuation at r2.
C7_DecreasingForPositiveForecast ==
    (pc = "returned" /\ NonNegativeSomePositive(args.cash_flows_arg.list)
        /\ args.growth.v[1] >= 0
        /\ RLess(args.growth.v, args.rate.v) /\ RLess(args.rate.v, args.rate2.v))
    => (returned[1].kind = "return" /\ returned[2].kind = "return"
        /\ IsFinite(returned[1].value) /\ IsFinite(returned[2].value)
        /\ RLess(returned[2].value, returned[1].value))

C7_Witness ==
    /\ pc = "returned" /\ args.cash_flows_arg.list = <<Whole(2), Whole(0)>>
    /\ args.growth.v = Frac(1, 50) /\ args.rate.v = Frac(1, 20) /\ args.rate2.v = Frac(1, 10)
    /\ RLess(returned[2].value, returned[1].value)

\* C8: the income statement satisfies grossProfit + cogs = revenue, operatingIncome +
\* operatingExpenses = grossProfit, netIncome = operatingIncome * (1 - taxRate), and
\* echoes revenue, cogs and operatingExpenses; the cash-flow statement satisfies
\* total = operating + investing, operating = netIncome + depreciation -
\* workingCapitalChange, investing = -capex.
C8_StatementIdentities ==
    /\ pc \in {"cash_flows", "shown"} =>
        /\ FAdd(financials.GrossProfit, financials.COGS) = financials.Revenue
        /\ FAdd(financials.OperatingIncome, financials.OperatingExpenses)
               = financials.GrossProfit
        /\ financials.NetIncome
               = FMul(financials.OperatingIncome, FSub(Whole(1), inputs.tax_rate))
        /\ financials.Revenue = inputs.revenue
        /\ financials.COGS = inputs.cogs
        /\ financials.OperatingExpenses = inputs.operating_expenses
    /\ pc = "shown" =>
        /\ cash_flows.TotalCashFlow
               = FAdd(cash_flows.OperatingCashFlow, cash_flows.InvestingCashFlow)
        /\ FAdd(cash_flows.OperatingCashFlow, inputs.working_capital_change)
               = FAdd(financials.NetIncome, inputs.depreciation)
        /\ FAdd(cash_flows.InvestingCashFlow, inputs.capex) = Whole(0)

C8_Witness ==
    /\ pc = "shown"
    /\ inputs.revenue = Whole(500000) /\ inputs.cogs = Whole(300000)
    /\ inputs.operating_expenses = Frac(1, 4) /\ inputs.tax_rate = Frac(1, 5)
    /\ inputs.depreciation = Whole(0) /\ inputs.capex = Whole(20000)
    /\ inputs.working_capital_change = Whole(-5000)
    /\ financials.NetIncome = Frac(799999, 5)
    /\ cash_flows.TotalCashFlow = Frac(724999, 5)

\* C9 (as stated): whenever discountRate != terminalGrowthRate, and so whenever
\* discountRate < terminalGrowthRate, calculate_dcf raises nothing and returns the
\* formula's value for a non-empty numeric forecast.
C9_OnlyEqualityRejected ==
    (pc # "call" /\ args.cash_flows_arg.list # <<>>
        /\ AllFinite(args.cash_flows_arg.list) /\ args.rate.v # args.growth.v)
    => (returned[1].kind = "return"
        /\ returned[1].value
               = FormulaValue(args.cash_flows_arg.list, args.rate.v, args.growth.v))

\* C9 (amended): whenever discountRate != terminalGrowthRate and discountRate != -1,
\* and so whenever -1 < discountRate < terminalGrowthRate, calculate_dcf raises
\* nothing and returns the formula's value for a non-empty forecast of finite numbers.
C9_EqualityAndMinusOneRejected ==
    (pc # "call" /\ args.cash_flows_arg.list # <<>>
        /\ AllFinite(args.cash_flows_arg.list) /\ args.rate.v # args.growth.v
        /\ args.rate.v # Whole(-1))
    => (returned[1].kind = "return"
        /\ returned[1].value
               = FormulaValue(args.cash_flows_arg.list, args.rate.v, args.growth.v))

C9_Witness ==
    /\ pc = "returned" /\ args.cash_flows_arg.list = <<Whole(0), Whole(2)>>
    /\ args.rate = PyFloat(Whole(0)) /\ args.growth = PyFloat(Frac(1, 50))
    /\ returned[1].kind = "return" /\ returned[1].value = Whole(-100)

\* C10: when the text, split on ',', stripped and with empty tokens dropped, is
\* empty or holds a token that is no number, the validation message is shown and
\* calculate_dcf is never invoked; every invocation gets a non-empty list of numbers.
C10_InvalidTextNeverReachesDCF ==
    LET tokens == NonEmptyStripped(split(raw_text))
        rejected == tokens = <<>> \/ \E k \in 1..Len(tokens) : ~IsFloatLiteral(tokens[k])
    IN  /\ (rejected /\ pc # "parse") => (sidebar_error /\ calls = <<>>)
        /\ \A k \in 1..Len(calls) :
               /\ ~calls[k][1].isNone
               /\ calls[k][1].list # <<>>
               /\ AllFinite(calls[k][1].list)

C10_Witness ==
    /\ pc = "done" /\ button /\ raw_text = <<"1", ",", "x">>
    /\ sidebar_error /\ calls = <<>> /\ cash_flow_forecast = None

====
